---- MODULE Spec2Model ----
(***************************************************************************)
(* Subscription aggregator: period validation, subscription validation,   *)
(* the PostgreSQL subscription repository and the HTTP request handlers.   *)
(*                                                                         *)
(* Strings whose characters matter (periods) are sequences of one-char     *)
(* strings; error texts are sequences of words.                            *)
(***************************************************************************)
EXTENDS Integers, Sequences, FiniteSets, TLC

VARIABLES store, used, deleted, last, inflight

vars == <<store, used, deleted, last, inflight>>

-----------------------------------------------------------------------------
(* Characters and Go string primitives                                     *)

DigitSeq == <<"0", "1", "2", "3", "4", "5", "6", "7", "8", "9">>

Digits == {DigitSeq[i] : i \in 1..10}

DigitTable == [c \in Digits |-> (CHOOSE i \in 1..10 : DigitSeq[i] = c) - 1]

DigitVal(c) == DigitTable[c]

\* Byte value of the characters the model uses (ASCII).
Ord(c) ==
  IF c \in Digits THEN 48 + DigitVal(c)
  ELSE IF c = "+" THEN 43
  ELSE IF c = "-" THEN 45
  ELSE IF c = "/" THEN 47
  ELSE 97

RECURSIVE DecVal(_)
DecVal(ds) ==
  IF Len(ds) = 0 THEN 0
  ELSE 10 * DecVal(SubSeq(ds, 1, Len(ds) - 1)) + DigitVal(ds[Len(ds)])

\* strconv.Atoi: optional sign, then one or more decimal digits.
Atoi(s) ==
  LET signed == Len(s) > 0 /\ s[1] \in {"+", "-"}
      body   == IF signed THEN Tail(s) ELSE s
  IN  IF Len(body) = 0 \/ \E i \in 1..Len(body) : body[i] \notin Digits
        THEN [val |-> 0, ok |-> FALSE]
        ELSE [val |-> IF signed /\ s[1] = "-" THEN 0 - DecVal(body) ELSE DecVal(body),
              ok  |-> TRUE]

\* strings.Split(s, "-")
RECURSIVE Split(_)
Split(s) ==
  IF \A i \in 1..Len(s) : s[i] # "-" THEN <<s>>
  ELSE LET k == CHOOSE i \in 1..Len(s) :
                  s[i] = "-" /\ \A j \in 1..(i - 1) : s[j] # "-"
       IN  <<SubSeq(s, 1, k - 1)>> \o Split(SubSeq(s, k + 1, Len(s)))

\* Comparison of two text values by the bytes of their characters (the
\* ordering of the text columns start_date and end_date).
RECURSIVE TextLE(_, _)
TextLE(a, b) ==
  IF Len(a) = 0 THEN TRUE
  ELSE IF Len(b) = 0 THEN FALSE
  ELSE IF Ord(a[1]) < Ord(b[1]) THEN TRUE
  ELSE IF Ord(a[1]) > Ord(b[1]) THEN FALSE
  ELSE TextLE(Tail(a), Tail(b))

-----------------------------------------------------------------------------
(* Period validation                                                       *)

\* repository: isValidMonthYear
isValidMonthYear(s) ==
  IF Len(s) # 7 \/ s[3] # "-" THEN FALSE
  ELSE LET month == Atoi(SubSeq(s, 1, 2))
           year  == Atoi(SubSeq(s, 4, 7))
       IN  IF ~month.ok \/ ~year.ok THEN FALSE
           ELSE month.val >= 1 /\ month.val <= 12
                /\ year.val >= 1900 /\ year.val <= 2100

\* handler: monthYearRegex.MatchString, ^(0[1-9]|1[0-2])-\d{4}$
monthYearRegex(s) ==
  /\ Len(s) = 7
  /\ \/ s[1] = "0" /\ s[2] \in (Digits \ {"0"})
     \/ s[1] = "1" /\ s[2] \in {"0", "1", "2"}
  /\ s[3] = "-"
  /\ \A i \in 4..7 : s[i] \in Digits

\* handler: ValidatePeriodDate
ValidatePeriodDate(dateStr) ==
  IF ~monthYearRegex(dateStr)
    THEN <<"date", "must", "be", "in", "MM-YYYY", "format">>
    ELSE <<>>

\* isEndDateAfterOrEqual comparing the raw strings instead of (year, month).
isEndDateAfterOrEqual_RawText(start, end) == TextLE(start, end)

\* isEndDateAfterOrEqual comparing the months without requiring equal years.
isEndDateAfterOrEqual_MonthOnly(start, end) ==
  LET startParts == Split(start)
      endParts   == Split(end)
      startYear  == Atoi(startParts[2]).val
      startMonth == Atoi(startParts[1]).val
      endYear    == Atoi(endParts[2]).val
      endMonth   == Atoi(endParts[1]).val
  IN  IF endYear > startYear THEN TRUE
      ELSE IF endMonth >= startMonth THEN TRUE
      ELSE FALSE

\* handler: isEndDateAfterOrEqual (the Atoi errors are discarded)
isEndDateAfterOrEqual(start, end) ==
  LET startParts == Split(start)
      endParts   == Split(end)
      startYear  == Atoi(startParts[2]).val
      startMonth == Atoi(startParts[1]).val
      endYear    == Atoi(endParts[2]).val
      endMonth   == Atoi(endParts[1]).val
  IN  IF endYear > startYear THEN TRUE
      ELSE IF endYear = startYear /\ endMonth >= startMonth THEN TRUE
      ELSE FALSE

-----------------------------------------------------------------------------
(* Identifiers                                                             *)

\* Identifiers the store's id default generates, in the order it yields them.
IdPool == <<"id1", "id2", "id3", "id4">>

GenIds == {IdPool[i] : i \in 1..Len(IdPool)}

\* A well-formed UUID that the store never generates.
ForeignId == "id0"

UserIds == {"u1", "u2"}

WellFormedUUIDs == GenIds \cup {ForeignId} \cup UserIds

\* uuid.Parse(x) returns no error
uuidParse(x) == x \in WellFormedUUIDs

\* Text of the error uuid.Parse returns.
UUIDParseErr == <<"invalid", "UUID", "format">>

-----------------------------------------------------------------------------
(* Subscription validation                                                 *)

NoErr == <<>>

\* ValidateSubscriptionInput with the price rule checked before service_name.
ValidateSubscriptionInput_PriceFirst(serviceName, price, userID, startDate) ==
  IF price <= 0 THEN <<"price", "must", "be", "a", "positive", "integer">>
  ELSE IF serviceName = "" THEN <<"service_name", "is", "required">>
  ELSE IF ~uuidParse(userID) THEN <<"user_id", "must", "be", "a", "valid", "UUID">>
  ELSE IF ~monthYearRegex(startDate)
    THEN <<"start_date", "must", "be", "in", "MM-YYYY", "format", "(e.g.,", "07-2025)">>
  ELSE NoErr

\* handler: ValidateSubscriptionInput
ValidateSubscriptionInput(serviceName, price, userID, startDate) ==
  IF serviceName = "" THEN <<"service_name", "is", "required">>
  ELSE IF price <= 0 THEN <<"price", "must", "be", "a", "positive", "integer">>
  ELSE IF ~uuidParse(userID) THEN <<"user_id", "must", "be", "a", "valid", "UUID">>
  ELSE IF ~monthYearRegex(startDate)
    THEN <<"start_date", "must", "be", "in", "MM-YYYY", "format", "(e.g.,", "07-2025)">>
  ELSE NoErr

-----------------------------------------------------------------------------
(* Storage: the subscriptions table                                        *)

\* A nullable text value (sql.NullString / *string).
Null == [Valid |-> FALSE, String |-> <<>>]

Some(s) == [Valid |-> TRUE, String |-> s]

\* Texts of the failures the storage engine itself can report.
StorageErrs ==
  { <<"connection", "refused">>,
    <<"invalid", "byte", "sequence", "for", "encoding">> }

\* No failure, or one of the storage failures.
Fails == {NoErr} \cup StorageErrs

\* The table's constraint CHECK (price > 0), reported by INSERT and UPDATE.
CheckViolation(sub) ==
  IF sub.price <= 0 THEN <<"violates", "check", "constraint">> ELSE NoErr

\* The ids the id column's default gen_random_uuid() can yield next: never
\* one it has yielded before (ids are opaque, so the next of the pool stands
\* for any fresh one).
NewIds(st, usd) ==
  {IdPool[i] : i \in {j \in 1..Len(IdPool) :
                        IdPool[j] \notin usd /\ \A k \in 1..(j - 1) : IdPool[k] \in usd}}

Row(sub) ==
  [service_name |-> sub.service_name, price |-> sub.price, user_id |-> sub.user_id,
   start_date |-> sub.start_date, end_date |-> sub.end_date]

ErrNotFound == <<"subscription", "not", "found">>

ErrStartDate == <<"start_date", "must", "be", "in", "MM-YYYY", "format">>

ErrDates == <<"dates", "must", "be", "in", "MM-YYYY", "format">>

\* Create that inserts the id the caller supplied when it is a UUID, instead
\* of leaving the id to the column default.
RepoCreate_SuppliedId(st, sub, gen, fail) ==
  IF ~uuidParse(sub.user_id)
    THEN [err |-> <<"invalid", "user_id", "UUID:">> \o UUIDParseErr,
          store |-> st, id |-> "", stmts |-> 0]
  ELSE IF ~isValidMonthYear(sub.start_date)
    THEN [err |-> ErrStartDate, store |-> st, id |-> "", stmts |-> 0]
  ELSE LET cause == IF fail # NoErr THEN fail ELSE CheckViolation(sub)
           key   == IF uuidParse(sub.id) THEN sub.id ELSE gen
       IN  IF cause # NoErr
             THEN [err |-> <<"database", "insert", "failed:">> \o cause,
                   store |-> st, id |-> "", stmts |-> 1]
             ELSE [err |-> NoErr,
                   store |-> [i \in DOMAIN st \cup {key} |->
                                IF i = key THEN Row(sub) ELSE st[i]],
                   id |-> key, stmts |-> 1]

\* Create with the start_date check made after the INSERT instead of before.
RepoCreate_ValidateAfterInsert(st, sub, gen, fail) ==
  IF ~uuidParse(sub.user_id)
    THEN [err |-> <<"invalid", "user_id", "UUID:">> \o UUIDParseErr,
          store |-> st, id |-> "", stmts |-> 0]
  ELSE LET cause == IF fail # NoErr THEN fail ELSE CheckViolation(sub)
           after == [i \in DOMAIN st \cup {gen} |-> IF i = gen THEN Row(sub) ELSE st[i]]
       IN  IF cause # NoErr
             THEN [err |-> <<"database", "insert", "failed:">> \o cause,
                   store |-> st, id |-> "", stmts |-> 1]
           ELSE IF ~isValidMonthYear(sub.start_date)
             THEN [err |-> ErrStartDate, store |-> after, id |-> gen, stmts |-> 1]
           ELSE [err |-> NoErr, store |-> after, id |-> gen, stmts |-> 1]

\* repository: PostgresSubscriptionRepo.Create. gen is the id the store
\* generates for the row, fail the failure of the statement (NoErr if none).
RepoCreate(st, sub, gen, fail) ==
  IF ~uuidParse(sub.user_id)
    THEN [err |-> <<"invalid", "user_id", "UUID:">> \o UUIDParseErr,
          store |-> st, id |-> "", stmts |-> 0]
  ELSE IF ~isValidMonthYear(sub.start_date)
    THEN [err |-> ErrStartDate, store |-> st, id |-> "", stmts |-> 0]
  ELSE LET cause == IF fail # NoErr THEN fail ELSE CheckViolation(sub)
       IN  IF cause # NoErr
             THEN [err |-> <<"database", "insert", "failed:">> \o cause,
                   store |-> st, id |-> "", stmts |-> 1]
             ELSE [err |-> NoErr,
                   store |-> [i \in DOMAIN st \cup {gen} |->
                                IF i = gen THEN Row(sub) ELSE st[i]],
                   id |-> gen, stmts |-> 1]

\* repository: PostgresSubscriptionRepo.GetByID
RepoGetByID(st, id, fail) ==
  IF ~uuidParse(id)
    THEN [err |-> <<"invalid", "subscription", "ID", "format">>, found |-> FALSE, stmts |-> 0]
  ELSE IF fail # NoErr
    THEN [err |-> <<"database", "query", "failed:">> \o fail, found |-> FALSE, stmts |-> 1]
  ELSE IF id \notin DOMAIN st
    THEN [err |-> ErrNotFound, found |-> FALSE, stmts |-> 1]
  ELSE [err |-> NoErr, found |-> TRUE, sub |-> st[id], stmts |-> 1]

\* Update written as an upsert: a row is inserted when none has the id.
RepoUpdate_Upsert(st, id, sub, fail) ==
  IF ~uuidParse(id)
    THEN [err |-> <<"invalid", "subscription", "ID:">> \o UUIDParseErr,
          store |-> st, stmts |-> 0]
  ELSE IF ~uuidParse(sub.user_id)
    THEN [err |-> <<"invalid", "user_id", "UUID:">> \o UUIDParseErr,
          store |-> st, stmts |-> 0]
  ELSE IF ~isValidMonthYear(sub.start_date)
    THEN [err |-> ErrStartDate, store |-> st, stmts |-> 0]
  ELSE LET cause == IF fail # NoErr THEN fail ELSE CheckViolation(sub)
       IN  IF cause # NoErr
             THEN [err |-> <<"database", "update", "failed:">> \o cause,
                   store |-> st, stmts |-> 1]
             ELSE [err |-> NoErr,
                   store |-> [i \in DOMAIN st \cup {id} |->
                                IF i = id THEN Row(sub) ELSE st[i]],
                   stmts |-> 1]

\* repository: PostgresSubscriptionRepo.Update
RepoUpdate(st, id, sub, fail) ==
  IF ~uuidParse(id)
    THEN [err |-> <<"invalid", "subscription", "ID:">> \o UUIDParseErr,
          store |-> st, stmts |-> 0]
  ELSE IF ~uuidParse(sub.user_id)
    THEN [err |-> <<"invalid", "user_id", "UUID:">> \o UUIDParseErr,
          store |-> st, stmts |-> 0]
  ELSE IF ~isValidMonthYear(sub.start_date)
    THEN [err |-> ErrStartDate, store |-> st, stmts |-> 0]
  ELSE LET cause == IF fail # NoErr THEN fail
                    ELSE IF id \in DOMAIN st THEN CheckViolation(sub)
                    ELSE NoErr
       IN  IF cause # NoErr
             THEN [err |-> <<"database", "update", "failed:">> \o cause,
                   store |-> st, stmts |-> 1]
           ELSE IF id \notin DOMAIN st
             THEN [err |-> ErrNotFound, store |-> st, stmts |-> 1]
           ELSE [err |-> NoErr, store |-> [st EXCEPT ![id] = Row(sub)], stmts |-> 1]

\* repository: PostgresSubscriptionRepo.Delete
RepoDelete(st, id, fail) ==
  IF ~uuidParse(id)
    THEN [err |-> <<"invalid", "subscription", "ID:">> \o UUIDParseErr,
          store |-> st, stmts |-> 0]
  ELSE IF fail # NoErr
    THEN [err |-> <<"database", "delete", "failed:">> \o fail, store |-> st, stmts |-> 1]
  ELSE IF id \notin DOMAIN st
    THEN [err |-> ErrNotFound, store |-> st, stmts |-> 1]
  ELSE [err |-> NoErr, store |-> [i \in DOMAIN st \ {id} |-> st[i]], stmts |-> 1]

\* SUM(price) over the rows with the given ids.
RECURSIVE SumPrice(_, _)
SumPrice(st, ids) ==
  IF ids = {} THEN 0
  ELSE LET i == CHOOSE x \in ids : TRUE
       IN  st[i].price + SumPrice(st, ids \ {i})

\* The WHERE clause of the aggregation query; start_date and end_date are
\* text columns and $2, $3 text parameters.
TotalCostWhere(row, userID, serviceName, from, to) ==
  /\ row.user_id = userID
  /\ TextLE(row.start_date, to)
  /\ (~row.end_date.Valid \/ TextLE(from, row.end_date.String))
  /\ (serviceName # "" => row.service_name = serviceName)

\* repository: PostgresSubscriptionRepo.TotalCost
RepoTotalCost(st, userID, serviceName, from, to, fail) ==
  IF ~uuidParse(userID)
    THEN [err |-> <<"invalid", "user_id", "UUID:">> \o UUIDParseErr, total |-> 0, stmts |-> 0]
  ELSE IF ~isValidMonthYear(from) \/ ~isValidMonthYear(to)
    THEN [err |-> ErrDates, total |-> 0, stmts |-> 0]
  ELSE IF fail # NoErr
    THEN [err |-> <<"database", "aggregation", "failed:">> \o fail, total |-> 0, stmts |-> 1]
  ELSE [err |-> NoErr,
        total |-> SumPrice(st, {i \in DOMAIN st :
                     TotalCostWhere(st[i], userID, serviceName, from, to)}),
        stmts |-> 1]

-----------------------------------------------------------------------------
(* Request handlers                                                        *)

\* strings.Contains(err.Error(), w), on the words of the text
Contains(err, w) == \E i \in 1..Len(err) : err[i] = w

\* handler: the validation shared by CreateSubscription and UpdateSubscription;
\* the status it answers, 0 when the request passes.
BodyStatus(req) ==
  IF ~req.json THEN 400
  ELSE IF ValidateSubscriptionInput(req.service_name, req.price,
                                    req.user_id, req.start_date) # NoErr THEN 400
  ELSE IF req.end_date.Valid /\ ValidatePeriodDate(req.end_date.String) # NoErr THEN 400
  ELSE IF req.end_date.Valid
          /\ ~isEndDateAfterOrEqual(req.start_date, req.end_date.String) THEN 400
  ELSE 0

\* handler: SubscriptionHandler.CreateSubscription
HandleCreate(st, req, gen, fail) ==
  IF BodyStatus(req) # 0
    THEN [status |-> BodyStatus(req), store |-> st, id |-> "", stmts |-> 0]
  ELSE LET r == RepoCreate(st, req, gen, fail)
       IN  IF r.err # NoErr
             THEN [status |-> 500, store |-> r.store, id |-> "", stmts |-> r.stmts]
             ELSE [status |-> 201, store |-> r.store, id |-> r.id, stmts |-> r.stmts]

\* handler: SubscriptionHandler.GetSubscription
HandleGet(st, id, fail) ==
  IF id = "" THEN [status |-> 400, stmts |-> 0]
  ELSE IF ~uuidParse(id) THEN [status |-> 400, stmts |-> 0]
  ELSE LET r == RepoGetByID(st, id, fail)
       IN  IF r.err # NoErr
             THEN IF r.err = ErrNotFound
                    THEN [status |-> 404, stmts |-> r.stmts]
                    ELSE [status |-> 500, stmts |-> r.stmts]
             ELSE [status |-> 200, stmts |-> r.stmts]

\* The response body of a request that got none, and the JSON encoding of
\* the subscription a read returned.
NoBody == [id |-> "", row |-> << >>]

Encode(id, sub) == [id |-> id, row |-> sub]

\* handler: SubscriptionHandler.UpdateSubscription up to and including its
\* repo.Update call; status 0 means the handler goes on to its read.
HandleUpdateWrite(st, id, req, fail) ==
  IF id = "" THEN [status |-> 400, store |-> st, stmts |-> 0]
  ELSE IF BodyStatus(req) # 0 THEN [status |-> BodyStatus(req), store |-> st, stmts |-> 0]
  ELSE LET r == RepoUpdate(st, id, req, fail)
       IN  IF r.err # NoErr
             THEN IF r.err = ErrNotFound
                    THEN [status |-> 404, store |-> r.store, stmts |-> r.stmts]
                    ELSE [status |-> 500, store |-> r.store, stmts |-> r.stmts]
             ELSE [status |-> 0, store |-> r.store, stmts |-> r.stmts]

\* The read of UpdateSubscription answering as GetSubscription does: 404 when
\* the row is not found.
HandleUpdateRead_NotFound404(st, id, fail) ==
  LET g == RepoGetByID(st, id, fail)
  IN  IF g.err # NoErr
        THEN IF g.err = ErrNotFound
               THEN [status |-> 404, body |-> NoBody, stmts |-> g.stmts]
               ELSE [status |-> 500, body |-> NoBody, stmts |-> g.stmts]
        ELSE [status |-> 200, body |-> Encode(id, g.sub), stmts |-> g.stmts]

\* handler: SubscriptionHandler.UpdateSubscription from its repo.GetByID call
\* on, run on the store as it is when the read is made.
HandleUpdateRead(st, id, fail) ==
  LET g == RepoGetByID(st, id, fail)
  IN  IF g.err # NoErr
        THEN [status |-> 500, body |-> NoBody, stmts |-> g.stmts]
        ELSE [status |-> 200, body |-> Encode(id, g.sub), stmts |-> g.stmts]

\* handler: SubscriptionHandler.UpdateSubscription run with no other request
\* in between; fail is the failure of the UPDATE statement, fail2 that of the
\* read that follows it.
HandleUpdate(st, id, req, fail, fail2) ==
  LET w == HandleUpdateWrite(st, id, req, fail)
  IN  IF w.status # 0 THEN w
      ELSE LET g == HandleUpdateRead(w.store, id, fail2)
           IN  [status |-> g.status, store |-> w.store, stmts |-> w.stmts + g.stmts]

\* handler: SubscriptionHandler.DeleteSubscription
HandleDelete(st, id, fail) ==
  IF id = "" THEN [status |-> 400, store |-> st, stmts |-> 0]
  ELSE IF ~uuidParse(id) THEN [status |-> 400, store |-> st, stmts |-> 0]
  ELSE LET r == RepoDelete(st, id, fail)
       IN  IF r.err # NoErr
             THEN IF r.err = ErrNotFound
                    THEN [status |-> 404, store |-> r.store, stmts |-> r.stmts]
                    ELSE [status |-> 500, store |-> r.store, stmts |-> r.stmts]
             ELSE [status |-> 204, store |-> r.store, stmts |-> r.stmts]

\* handler: SubscriptionHandler.GetTotalCost
HandleTotalCost(st, userID, serviceName, from, to, fail) ==
  IF from = <<>> \/ to = <<>> THEN [status |-> 400, total |-> 0, stmts |-> 0]
  ELSE IF userID = "" THEN [status |-> 400, total |-> 0, stmts |-> 0]
  ELSE LET r == RepoTotalCost(st, userID, serviceName, from, to, fail)
       IN  IF r.err # NoErr
             THEN IF Contains(r.err, "invalid")
                    THEN [status |-> 400, total |-> 0, stmts |-> r.stmts]
                    ELSE [status |-> 500, total |-> 0, stmts |-> r.stmts]
             ELSE [status |-> 200, total |-> r.total, stmts |-> r.stmts]

-----------------------------------------------------------------------------
(* Reference reading of a period string, used to state the properties      *)

D(n) == DigitSeq[n + 1]

\* The text MM-YYYY of month m and year y.
Fmt(m, y) ==
  <<D(m \div 10), D(m % 10), "-",
    D(y \div 1000), D((y \div 100) % 10), D((y \div 10) % 10), D(y % 10)>>

\* Two decimal digits, a hyphen, four decimal digits.
PeriodShape(s) ==
  /\ Len(s) = 7
  /\ s[3] = "-"
  /\ \A i \in {1, 2, 4, 5, 6, 7} : s[i] \in Digits

MonthOf(s) == DecVal(SubSeq(s, 1, 2))

YearOf(s) == DecVal(SubSeq(s, 4, 7))

\* The period of the data model: month in [1,12], year in [1900,2100].
ValidPeriod(s) ==
  /\ PeriodShape(s)
  /\ MonthOf(s) \in 1..12
  /\ YearOf(s) \in 1900..2100

\* The period pattern of the handlers: month 01-12, any four-digit year.
PatternPeriod(s) == PeriodShape(s) /\ MonthOf(s) \in 1..12

\* a is at or before b by (year, month).
ChronoLE(a, b) ==
  \/ YearOf(a) < YearOf(b)
  \/ YearOf(a) = YearOf(b) /\ MonthOf(a) <= MonthOf(b)

\* The requests that can be in flight at once; each is served once.
MaxRequests == 2

Requests == 1..MaxRequests

\* A request not yet received.
Idle ==
  [pc |-> "idle", id |-> "", wrote |-> << >>, latest |-> << >>, between |-> "none",
   fault |-> FALSE, status |-> 0, body |-> NoBody]

Quiet ==
  /\ store = << >>
  /\ used = {}
  /\ deleted = {}
  /\ inflight = [r \in Requests |-> Idle]

-----------------------------------------------------------------------------
(* SpecPeriod: isValidMonthYear applied to a string                        *)

MonthChars == {"0", "1", "2", "9", "+", "-", "a"}

MonthStrs == {<<c1, c2>> : c1 \in MonthChars, c2 \in MonthChars}

Seps == {"-", "/", "0"}

YearStrs ==
  {SubSeq(Fmt(1, y), 4, 7) : y \in {0, 1899, 1900, 2025, 2100, 2101, 9999}}
    \cup { <<"+", "9", "9", "9">>, <<"-", "1", "9", "0">>,
           <<"+", "1", "9", "0">>, <<"2", "0", "a", "5">> }

SevenChars == {m \o <<sp>> \o y : m \in MonthStrs, sp \in Seps, y \in YearStrs}

PeriodInputs ==
  SevenChars
    \cup {SubSeq(s, 1, 6) : s \in SevenChars}
    \cup {SubSeq(s, 2, 7) : s \in SevenChars}
    \cup {s \o <<"0">> : s \in SevenChars}
    \cup {<<>>}

InitPeriod ==
  /\ Quiet
  /\ \E s \in PeriodInputs : last = [op |-> "input", s |-> s]

CheckPeriod ==
  /\ last.op = "input"
  /\ last' = [op |-> "isValidMonthYear", s |-> last.s, ret |-> isValidMonthYear(last.s)]
  /\ UNCHANGED <<store, used, deleted, inflight>>

NextPeriod == CheckPeriod

SpecPeriod == InitPeriod /\ [][NextPeriod]_vars

\* C2: isValidMonthYear(s) is true exactly when s is two decimal digits, a
\* hyphen and four decimal digits with month in [1,12] and year in
\* [1900,2100]; every other string, one with a sign character included, is
\* classified invalid.
C2_ValidIffShape ==
  last.op = "isValidMonthYear" => (last.ret <=> ValidPeriod(last.s))

-----------------------------------------------------------------------------
(* SpecCmp: isEndDateAfterOrEqual applied to periods the format check      *)
(* accepts                                                                 *)

CmpMonths == {0, 1, 2, 11, 12, 13}

CmpYears == {999, 2024, 2025}

CmpPeriods == {p \in {Fmt(m, y) : m \in CmpMonths, y \in CmpYears} : monthYearRegex(p)}

InitCmp ==
  /\ Quiet
  /\ \E a \in CmpPeriods, b \in CmpPeriods, c \in CmpPeriods :
       last = [op |-> "input", a |-> a, b |-> b, c |-> c]

Compare ==
  /\ last.op = "input"
  /\ last' = [op |-> "isEndDateAfterOrEqual", a |-> last.a, b |-> last.b, c |-> last.c,
              aa |-> isEndDateAfterOrEqual(last.a, last.a),
              ab |-> isEndDateAfterOrEqual(last.a, last.b),
              ba |-> isEndDateAfterOrEqual(last.b, last.a),
              bc |-> isEndDateAfterOrEqual(last.b, last.c),
              ac |-> isEndDateAfterOrEqual(last.a, last.c)]
  /\ UNCHANGED <<store, used, deleted, inflight>>

NextCmp == Compare

SpecCmp == InitCmp /\ [][NextCmp]_vars

\* C7: for periods a, b the format check accepts, isEndDateAfterOrEqual(a, b)
\* is true exactly when (year, month) of b is at or after (year, month) of a;
\* the relation is reflexive, transitive, antisymmetric on (year, month) and
\* total, and for a = 11-2024, b = 01-2025 it is true although the raw
\* string b sorts before the raw string a.
C7_ChronologicalOrder ==
  last.op = "isEndDateAfterOrEqual" =>
    /\ last.ab <=> ChronoLE(last.a, last.b)
    /\ last.aa
    /\ (last.ab /\ last.bc) => last.ac
    /\ (last.ab /\ last.ba) =>
         (YearOf(last.a) = YearOf(last.b) /\ MonthOf(last.a) = MonthOf(last.b))
    /\ last.ab \/ last.ba
    /\ (last.a = Fmt(11, 2024) /\ last.b = Fmt(1, 2025)) =>
         (last.ab /\ ~TextLE(last.a, last.b))

C7_Witness ==
  /\ last.op = "isEndDateAfterOrEqual"
  /\ last.a = Fmt(11, 2024)
  /\ last.b = Fmt(1, 2025)
  /\ last.c = Fmt(2, 2025)
  /\ last.ab /\ last.bc /\ last.ac /\ ~last.ba

-----------------------------------------------------------------------------
(* SpecInput: ValidateSubscriptionInput applied to the fields of a body    *)

InputNames == {"", "Netflix"}

InputPrices == {-1, 0, 1, 2}

InputUsers == {"", "not-a-uuid", "u1"}

InputStarts ==
  { Fmt(7, 2025), Fmt(12, 1850), Fmt(0, 2025), Fmt(13, 2025),
    SubSeq(Fmt(7, 2025), 2, 7), Fmt(7, 2025) \o <<"0">>,
    <<"+", "1", "-", "2", "0", "2", "5">>,
    <<"0", "7", "/", "2", "0", "2", "5">>,
    <<"0", "7", "-", "2", "0", "a", "5">>,
    <<>> }

InitInput ==
  /\ Quiet
  /\ \E n \in InputNames, p \in InputPrices, u \in InputUsers, s \in InputStarts :
       last = [op |-> "input", serviceName |-> n, price |-> p, userID |-> u,
               startDate |-> s]

Validate ==
  /\ last.op = "input"
  /\ last' = [op |-> "ValidateSubscriptionInput", serviceName |-> last.serviceName,
              price |-> last.price, userID |-> last.userID, startDate |-> last.startDate,
              ret |-> ValidateSubscriptionInput(last.serviceName, last.price,
                                                last.userID, last.startDate)]
  /\ UNCHANGED <<store, used, deleted, inflight>>

NextInput == Validate

SpecInput == InitInput /\ [][NextInput]_vars

\* The message the rules of the subscription validator give, checked in the
\* order service_name, price, user_id, start_date.
FirstViolatedRule(n, p, u, s) ==
  IF n = "" THEN <<"service_name", "is", "required">>
  ELSE IF ~(p > 0) THEN <<"price", "must", "be", "a", "positive", "integer">>
  ELSE IF u \notin WellFormedUUIDs THEN <<"user_id", "must", "be", "a", "valid", "UUID">>
  ELSE IF ~PatternPeriod(s)
    THEN <<"start_date", "must", "be", "in", "MM-YYYY", "format", "(e.g.,", "07-2025)">>
  ELSE <<>>

\* C10: ValidateSubscriptionInput returns the message of the first violated
\* rule in the order service_name, price, user_id, start_date; price = 0 is
\* rejected with the price message, price = 1 passes the price rule, and the
\* result is nil exactly when all four rules hold.
C10_FirstFailureWins ==
  last.op = "ValidateSubscriptionInput" =>
    /\ last.ret = FirstViolatedRule(last.serviceName, last.price,
                                    last.userID, last.startDate)
    /\ (last.serviceName # "" /\ last.price = 0) =>
         last.ret = <<"price", "must", "be", "a", "positive", "integer">>
    /\ last.price = 1 => last.ret # <<"price", "must", "be", "a", "positive", "integer">>
    /\ last.ret = <<>> <=>
         /\ last.serviceName # ""
         /\ last.price > 0
         /\ last.userID \in WellFormedUUIDs
         /\ PatternPeriod(last.startDate)

C10_Witness ==
  /\ last.op = "ValidateSubscriptionInput"
  /\ last.serviceName = ""
  /\ last.price = 0
  /\ last.userID = "not-a-uuid"
  /\ last.startDate = Fmt(13, 2025)
  /\ last.ret = <<"service_name", "is", "required">>

-----------------------------------------------------------------------------
(* Requests                                                                *)

\* How many fields of one request body may be malformed at once.
MaxFaults == 1

BoolToNat(b) == IF b THEN 1 ELSE 0

\* The number of fields of a body that are malformed on their own.
Faults(n, p, u, s, e) ==
  BoolToNat(n = "") + BoolToNat(p <= 0) + BoolToNat(u \notin WellFormedUUIDs)
    + BoolToNat(~PatternPeriod(s)) + BoolToNat(e.Valid /\ ~PatternPeriod(e.String))

\* The decoded JSON bodies over the given values of the fields.
Bodies(names, prices, users, starts, ends) ==
  { [json |-> TRUE, service_name |-> n, price |-> p, user_id |-> u,
     start_date |-> s, end_date |-> e] :
      <<n, p, u, s, e>> \in
        { x \in names \X prices \X users \X starts \X ends :
            Faults(x[1], x[2], x[3], x[4], x[5]) <= MaxFaults } }

\* A body that json.Decode rejects.
BadJSON ==
  [json |-> FALSE, service_name |-> "", price |-> 0, user_id |-> "",
   start_date |-> <<>>, end_date |-> Null]

\* What a request body is, by the rules of the data model.
BaseOK(req) ==
  /\ req.json
  /\ req.service_name # ""
  /\ req.price > 0
  /\ req.user_id \in WellFormedUUIDs
  /\ ValidPeriod(req.start_date)

EndRel(req) ==
  IF ~req.json \/ ~req.end_date.Valid THEN "absent"
  ELSE IF ~PatternPeriod(req.end_date.String) THEN "malformed"
  ELSE IF ~PeriodShape(req.start_date) THEN "unordered"
  ELSE IF ~ChronoLE(req.start_date, req.end_date.String) THEN "before"
  ELSE IF ChronoLE(req.end_date.String, req.start_date) THEN "equal"
  ELSE "after"

-----------------------------------------------------------------------------
(* Spec: the create, get, update and delete endpoints                      *)

\* How many subscriptions the endpoints create in one run.
MaxSubs == 1

\* Bodies that vary the periods, and bodies that vary the other fields.
CrudBodies ==
  Bodies({"Netflix"}, {1}, {"u1"},
         {Fmt(12, 2024), Fmt(1, 2025), Fmt(7, 1850), Fmt(13, 2025)},
         {Null, Some(Fmt(12, 2024)), Some(Fmt(1, 2025)), Some(Fmt(12, 9999)),
          Some(Fmt(13, 2025))})
    \cup Bodies({"", "Netflix"}, {0, 1}, {"not-a-uuid", "u1"},
                {Fmt(12, 2024)}, {Null, Some(Fmt(12, 2024))})
    \cup {BadJSON}

\* The ids a request path can carry.
PathIds == {"", "not-a-uuid", ForeignId} \cup {IdPool[i] : i \in 1..MaxSubs}

Down == <<"connection", "refused">>

Init ==
  /\ store = << >>
  /\ used = {}
  /\ deleted = {}
  /\ last = [op |-> "none"]
  /\ inflight = [r \in Requests |-> Idle]

CreateSubscription(bodies, max) ==
  /\ Cardinality(used) < max
  /\ \E req \in bodies, gen \in NewIds(store, used), fail \in {NoErr, Down} :
       LET r == HandleCreate(store, req, gen, fail)
       IN  /\ store' = r.store
           /\ used' = IF r.id # "" THEN used \cup {r.id} ELSE used
           /\ UNCHANGED <<deleted, inflight>>
           /\ last' = [op |-> "Create", status |-> r.status,
                       wf |-> TRUE, stored |-> FALSE,
                       baseOK |-> BaseOK(req), endRel |-> EndRel(req),
                       failed |-> (fail # NoErr /\ r.stmts > 0),
                       changed |-> (r.store # store)]

GetSubscription ==
  \E id \in PathIds, fail \in {NoErr, Down} :
    LET r == HandleGet(store, id, fail)
    IN  /\ UNCHANGED <<store, used, deleted, inflight>>
        /\ last' = [op |-> "Get", status |-> r.status,
                    wf |-> (id \in WellFormedUUIDs), stored |-> (id \in DOMAIN store),
                    baseOK |-> TRUE, endRel |-> "absent",
                    failed |-> (fail # NoErr /\ r.stmts > 0),
                    changed |-> FALSE]

UpdateSubscription(bodies) ==
  \E id \in PathIds, req \in bodies,
     fails \in {<<NoErr, NoErr>>, <<Down, NoErr>>, <<NoErr, Down>>} :
    LET r == HandleUpdate(store, id, req, fails[1], fails[2])
    IN  /\ store' = r.store
        /\ UNCHANGED <<used, deleted, inflight>>
        /\ last' = [op |-> "Update", status |-> r.status,
                    wf |-> (id \in WellFormedUUIDs), stored |-> (id \in DOMAIN store),
                    baseOK |-> BaseOK(req), endRel |-> EndRel(req),
                    failed |-> \/ fails[1] # NoErr /\ r.stmts > 0
                               \/ fails[2] # NoErr /\ r.stmts > 1,
                    changed |-> (r.store # store)]

DeleteSubscription ==
  \E id \in PathIds, fail \in {NoErr, Down} :
    LET r == HandleDelete(store, id, fail)
    IN  /\ store' = r.store
        /\ UNCHANGED <<used, inflight>>
        /\ deleted' = IF r.status = 204 THEN deleted \cup {id} ELSE deleted
        /\ last' = [op |-> "Delete", status |-> r.status,
                    wf |-> (id \in WellFormedUUIDs), stored |-> (id \in DOMAIN store),
                    baseOK |-> TRUE, endRel |-> "absent",
                    failed |-> (fail # NoErr /\ r.stmts > 0),
                    changed |-> (r.store # store)]

Next ==
  \/ CreateSubscription(CrudBodies, MaxSubs)
  \/ GetSubscription
  \/ UpdateSubscription(CrudBodies)
  \/ DeleteSubscription

Spec == Init /\ [][Next]_vars

\* The request of the last step breaks a validation rule of the data model.
LastFault ==
  \/ ~last.wf
  \/ ~last.baseOK
  \/ last.endRel \in {"malformed", "before"}

\* C3: on the create, get, update and delete endpoints a request that breaks
\* a validation rule is answered 400, 404 is answered only for a well-formed
\* id that is not in storage, and 500 only on a storage failure.
C3_StatusMapping ==
  last.op \in {"Create", "Get", "Update", "Delete"} =>
    /\ LastFault => last.status = 400
    /\ last.status = 404 => (last.wf /\ ~last.stored)
    /\ last.status = 500 => last.failed

\* C5: every stored subscription has price > 0 and, when end_date is present,
\* end_date >= start_date by (year, month); a create or update whose end_date
\* is earlier than its start_date is rejected and stores nothing, and one
\* whose end_date equals its start_date is accepted.
C5_StoredEndNotBeforeStart ==
  /\ \A i \in DOMAIN store :
       /\ store[i].price > 0
       /\ store[i].end_date.Valid => ChronoLE(store[i].start_date, store[i].end_date.String)
  /\ (last.op \in {"Create", "Update"} /\ last.endRel = "before") =>
       (last.status = 400 /\ ~last.changed)
  /\ (last.op = "Create" /\ last.endRel = "equal" /\ last.baseOK /\ ~last.failed) =>
       (last.status = 201 /\ last.changed)
  /\ (last.op = "Update" /\ last.endRel = "equal" /\ last.baseOK /\ ~last.failed
        /\ last.wf /\ last.stored) =>
       last.status = 200

C5_Witness ==
  /\ last.op = "Update"
  /\ last.endRel = "equal"
  /\ last.status = 200
  /\ \E i \in DOMAIN store :
       /\ store[i].end_date.Valid
       /\ store[i].end_date.String = store[i].start_date

\* C6: every stored subscription's start_date, and its end_date when present,
\* is a period MM-YYYY with month in [01,12] and year in [1900,2100].
C6_StoredPeriodsValid ==
  \A i \in DOMAIN store :
    /\ ValidPeriod(store[i].start_date)
    /\ store[i].end_date.Valid => ValidPeriod(store[i].end_date.String)

-----------------------------------------------------------------------------
(* SpecTotal: the create and total-cost endpoints                          *)

\* How many subscriptions are created before totals are asked for.
MaxTotalSubs == 2

TotalBodies ==
  Bodies({"Netflix"}, {1}, {"u1", "u2"},
         {Fmt(6, 2024), Fmt(1, 2026)}, {Null, Some(Fmt(12, 2024))})
    \cup Bodies({"Spotify"}, {2}, {"u1", "u2"},
                {Fmt(6, 2024), Fmt(1, 2026)}, {Null, Some(Fmt(12, 2024))})

TotalUsers == {"", "not-a-uuid", "u1", "u2"}

TotalNames == {"", "Netflix"}

TotalFroms == {<<>>, Fmt(1, 2025), Fmt(13, 2025)}

TotalTos == {<<>>, Fmt(12, 2025), Fmt(7, 1850)}

\* The overlap of a row's active interval with [from, to] by (year, month).
ChronoOverlap(row, from, to) ==
  /\ ChronoLE(row.start_date, to)
  /\ (~row.end_date.Valid \/ ChronoLE(from, row.end_date.String))

\* The total the data model defines for a user, a service and a window.
ChronoTotal(st, userID, serviceName, from, to) ==
  SumPrice(st, {i \in DOMAIN st :
                  /\ st[i].user_id = userID
                  /\ ChronoOverlap(st[i], from, to)
                  /\ (serviceName # "" => st[i].service_name = serviceName)})

GetTotalCost ==
  \E userID \in TotalUsers, serviceName \in TotalNames,
     from \in TotalFroms, to \in TotalTos, fail \in Fails :
    LET r == HandleTotalCost(store, userID, serviceName, from, to, fail)
    IN  /\ UNCHANGED <<store, used, deleted, inflight>>
        /\ last' = [op |-> "TotalCost", status |-> r.status, total |-> r.total,
                    userID |-> userID, serviceName |-> serviceName,
                    from |-> from, to |-> to,
                    cause |-> IF r.stmts > 0 THEN fail ELSE NoErr]

\* The total-cost request of the last step has a well-formed user and window.
LastTotalValid ==
  /\ last.userID \in WellFormedUUIDs
  /\ ValidPeriod(last.from)
  /\ ValidPeriod(last.to)

NextTotal ==
  \/ CreateSubscription(TotalBodies, MaxTotalSubs)
  \/ GetTotalCost

SpecTotal == Init /\ [][NextTotal]_vars

\* C1: for valid userID, from and to, TotalCost returns the sum of price over
\* exactly the user's subscriptions with start_date <= to and (end_date absent
\* or end_date >= from), compared by (year, month), restricted to serviceName
\* when it is non-empty, and 0 when none match: for from = 01-2025 and
\* to = 12-2025 a subscription with end_date 12-2024 is not counted.
C1_TotalIsChronologicalSum ==
  (last.op = "TotalCost" /\ LastTotalValid /\ last.cause = NoErr) =>
    /\ last.status = 200
    /\ last.total = ChronoTotal(store, last.userID, last.serviceName, last.from, last.to)

\* C4: on the total-cost endpoint with non-empty user_id, from and to, an
\* invalid user_id or period is answered 400, a storage failure of the
\* aggregation query 500 whatever its text, and anything else 200.
C4_TotalStatusMapping ==
  (last.op = "TotalCost" /\ last.userID # "" /\ last.from # <<>> /\ last.to # <<>>) =>
    /\ ~LastTotalValid => last.status = 400
    /\ (LastTotalValid /\ last.cause # NoErr) => last.status = 500
    /\ (LastTotalValid /\ last.cause = NoErr) => last.status = 200

-----------------------------------------------------------------------------
(* SpecRepo: the repository called directly                                *)

\* How many subscriptions the repository creates in one run.
MaxRepoSubs == 2

RepoSubs ==
  Bodies({"Netflix"}, {0, 1}, {"not-a-uuid", "u1"},
         {Fmt(12, 2024), Fmt(7, 1850), Fmt(13, 2025),
          <<"+", "1", "-", "2", "0", "2", "5">>},
         {Null, Some(Fmt(12, 2024))})

RepoIds == {"not-a-uuid", ForeignId} \cup {IdPool[i] : i \in 1..MaxRepoSubs}

\* The arguments pass the repository's validation rules as the data model
\* states them.
SubValid(sub) == sub.user_id \in WellFormedUUIDs /\ ValidPeriod(sub.start_date)

\* A subscription as the caller passes it, its ID field set to id.
WithID(sub, id) ==
  [json |-> sub.json, id |-> id, service_name |-> sub.service_name,
   price |-> sub.price, user_id |-> sub.user_id,
   start_date |-> sub.start_date, end_date |-> sub.end_date]

\* The row a call wrote, when it wrote one.
NoRow == [Valid |-> FALSE]

Wrote(err, sub) == IF err = NoErr THEN [Valid |-> TRUE, Row |-> Row(sub)] ELSE NoRow

\* The ID field of a subscription passed to Create: empty, a UUID no row has,
\* and the id the first stored row gets.
GivenIds == {"", ForeignId, IdPool[1]}

Create ==
  /\ Cardinality(used) < MaxRepoSubs
  /\ \E sub \in RepoSubs, given \in GivenIds,
        gen \in NewIds(store, used), fail \in {NoErr, Down} :
       LET r == RepoCreate(store, WithID(sub, given), gen, fail)
       IN  /\ store' = r.store
           /\ used' = IF r.id # "" THEN used \cup {r.id} ELSE used
           /\ UNCHANGED <<deleted, inflight>>
           /\ last' = [op |-> "Create", id |-> r.id, err |-> r.err, stmts |-> r.stmts,
                       valid |-> SubValid(sub),
                       failed |-> (r.stmts > 0 /\ (fail # NoErr \/ sub.price <= 0)),
                       given |-> given, wrote |-> Wrote(r.err, sub)]

GetByID ==
  \E id \in RepoIds, fail \in {NoErr, Down} :
    LET r == RepoGetByID(store, id, fail)
    IN  /\ UNCHANGED <<store, used, deleted, inflight>>
        /\ last' = [op |-> "GetByID", id |-> id, err |-> r.err, stmts |-> r.stmts,
                    valid |-> (id \in WellFormedUUIDs),
                    failed |-> (r.stmts > 0 /\ fail # NoErr)]

Update ==
  \E id \in RepoIds, sub \in RepoSubs, fail \in {NoErr, Down} :
    LET r == RepoUpdate(store, id, sub, fail)
    IN  /\ store' = r.store
        /\ UNCHANGED <<used, deleted, inflight>>
        /\ last' = [op |-> "Update", id |-> id, err |-> r.err, stmts |-> r.stmts,
                    valid |-> (id \in WellFormedUUIDs /\ SubValid(sub)),
                    failed |-> /\ r.stmts > 0
                               /\ \/ fail # NoErr
                                  \/ id \in DOMAIN store /\ sub.price <= 0,
                    wrote |-> Wrote(r.err, sub)]

Delete ==
  \E id \in RepoIds, fail \in {NoErr, Down} :
    LET r == RepoDelete(store, id, fail)
    IN  /\ store' = r.store
        /\ UNCHANGED <<used, inflight>>
        /\ deleted' = IF r.err = NoErr THEN deleted \cup {id} ELSE deleted
        /\ last' = [op |-> "Delete", id |-> id, err |-> r.err, stmts |-> r.stmts,
                    valid |-> (id \in WellFormedUUIDs),
                    failed |-> (r.stmts > 0 /\ fail # NoErr)]

NextRepo ==
  \/ Create
  \/ GetByID
  \/ Update
  \/ Delete

SpecRepo == Init /\ [][NextRepo]_vars

\* The error texts of the repository that report a validation failure.
ValidationErrs ==
  { <<"invalid", "user_id", "UUID:">> \o UUIDParseErr,
    <<"invalid", "subscription", "ID:">> \o UUIDParseErr,
    <<"invalid", "subscription", "ID", "format">>,
    <<"start_date", "must", "be", "in", "MM-YYYY", "format">> }

\* C8: a repository Create, Update or Delete that returns a validation error
\* or a not-found error leaves the stored subscriptions as they were, and a
\* validation error is returned before any storage statement is issued;
\* Update on a well-formed id that is not in storage returns not found and
\* changes no row.
C8_FailedCallsChangeNothing ==
  [][ last'.op \in {"Create", "Update", "Delete"} =>
        /\ last'.err \in ValidationErrs => (store' = store /\ last'.stmts = 0)
        /\ last'.err = ErrNotFound => store' = store
        /\ (last'.op = "Update" /\ last'.valid /\ ~last'.failed
              /\ last'.id \notin DOMAIN store) =>
             (last'.err = ErrNotFound /\ store' = store) ]_vars

C8_Witness ==
  /\ last.op = "Update"
  /\ last.id \in WellFormedUUIDs
  /\ last.id \notin DOMAIN store
  /\ last.err = ErrNotFound
  /\ store # << >>

\* C9: once Delete(id) has succeeded, id is never stored again: every later
\* Delete(id) returns not found and changes nothing, and every later
\* GetByID(id) returns not found.
C9_DeletedStaysDeleted ==
  [][ \A id \in deleted :
        /\ id \notin DOMAIN store'
        /\ (last'.op = "Delete" /\ last'.id = id /\ ~last'.failed) =>
             (last'.err = ErrNotFound /\ store' = store)
        /\ (last'.op = "GetByID" /\ last'.id = id /\ ~last'.failed) =>
             last'.err = ErrNotFound ]_vars

C9_Witness ==
  /\ last.op = "Delete"
  /\ last.id \in deleted
  /\ last.err = ErrNotFound
  /\ store # << >>

\* C11: stored ids are unique and never change: a successful Create adds
\* exactly one row, under an id different from every id stored before and
\* whatever id the caller supplied, and leaves every other row as it was; a
\* successful Update(id, sub) replaces the five fields of the row with that
\* id only and keeps its id; a successful Delete(id) removes that row only.
C11_OnlyTheTargetRowChanges ==
  [][ last'.err = NoErr =>
        /\ last'.op = "Create" =>
             /\ last'.id \notin DOMAIN store
             /\ last'.id \notin used
             /\ DOMAIN store' = DOMAIN store \cup {last'.id}
             /\ store'[last'.id] = last'.wrote.Row
             /\ \A i \in DOMAIN store : store'[i] = store[i]
        /\ last'.op = "Update" =>
             /\ last'.id \in DOMAIN store
             /\ DOMAIN store' = DOMAIN store
             /\ store'[last'.id] = last'.wrote.Row
             /\ \A i \in DOMAIN store \ {last'.id} : store'[i] = store[i]
        /\ last'.op = "Delete" =>
             /\ last'.id \in DOMAIN store
             /\ DOMAIN store' = DOMAIN store \ {last'.id}
             /\ \A i \in DOMAIN store' : store'[i] = store[i]
        /\ last'.op = "GetByID" => store' = store ]_vars

\* A Create given the id of a stored row has added a second row beside it.
C11_Witness ==
  /\ last.op = "Create"
  /\ last.err = NoErr
  /\ last.given \in DOMAIN store
  /\ last.given # last.id
  /\ Cardinality(DOMAIN store) = 2
  /\ store[last.given] # store[last.id]

-----------------------------------------------------------------------------
(* Requests in flight: the two statements of UpdateSubscription with the   *)
(* statements of other requests between them                               *)

RaceBodies == Bodies({"Netflix"}, {0, 1, 2}, {"u1"}, {Fmt(1, 2025)}, {Null})

\* Request r is received and answered.
Answered(r, id, status) == [Idle EXCEPT !.pc = "done", !.id = id, !.status = status]

\* What a statement of another request does to the record of request q that
\* waits between its UPDATE and its read of the row id.
Crossed(q, id, kind, row) ==
  IF inflight[q].pc = "updated" /\ inflight[q].id = id
    THEN [inflight[q] EXCEPT !.between = kind, !.latest = row]
    ELSE inflight[q]

\* UpdateSubscription of request r up to its UPDATE statement.
UpdateWrite(r) ==
  /\ inflight[r].pc = "idle"
  /\ \E id \in PathIds, req \in RaceBodies, fail \in {NoErr, Down} :
       LET w == HandleUpdateWrite(store, id, req, fail)
       IN  /\ store' = w.store
           /\ inflight' =
                [q \in Requests |->
                   IF q = r
                     THEN IF w.status = 0
                            THEN [Idle EXCEPT !.pc = "updated", !.id = id,
                                              !.wrote = Row(req), !.latest = Row(req)]
                            ELSE Answered(r, id, w.status)
                   ELSE IF w.status = 0
                     THEN Crossed(q, id, "update", Row(req))
                     ELSE inflight[q]]
           /\ UNCHANGED <<used, deleted, last>>

\* UpdateSubscription of request r from its GetByID statement to its answer.
UpdateRead(r) ==
  /\ inflight[r].pc = "updated"
  /\ \E fail \in {NoErr, Down} :
       LET g == HandleUpdateRead(store, inflight[r].id, fail)
       IN  /\ inflight' = [inflight EXCEPT ![r] =
                             [@ EXCEPT !.pc = "done", !.fault = (fail # NoErr),
                                       !.status = g.status, !.body = g.body]]
           /\ UNCHANGED <<store, used, deleted, last>>

\* DeleteSubscription of request r: one statement.
DeleteRequest(r) ==
  /\ inflight[r].pc = "idle"
  /\ \E id \in PathIds, fail \in {NoErr, Down} :
       LET d == HandleDelete(store, id, fail)
       IN  /\ store' = d.store
           /\ deleted' = IF d.status = 204 THEN deleted \cup {id} ELSE deleted
           /\ inflight' =
                [q \in Requests |->
                   IF q = r THEN Answered(r, id, d.status)
                   ELSE IF d.status = 204
                     THEN Crossed(q, id, "delete", << >>)
                     ELSE inflight[q]]
           /\ UNCHANGED <<used, last>>

NextRace ==
  \/ CreateSubscription(RaceBodies, MaxSubs)
  \/ \E r \in Requests : UpdateWrite(r)
  \/ \E r \in Requests : UpdateRead(r)
  \/ \E r \in Requests : DeleteRequest(r)

SpecRace == Init /\ [][NextRace]_vars

\* Request r has been answered after its UPDATE statement succeeded.
UpdatedAndAnswered(r) == inflight[r].pc = "done" /\ inflight[r].wrote # << >>

\* C12: a request whose UPDATE statement succeeded is answered with status
\* 200 and a body holding the field values this request wrote, whatever
\* Update or Delete of other requests on the same id ran between its UPDATE
\* and its read (storage failures of the read aside).
C12_AnsweredWithOwnWrite ==
  \A r \in Requests :
    UpdatedAndAnswered(r) /\ ~inflight[r].fault =>
      /\ inflight[r].status = 200
      /\ inflight[r].body = Encode(inflight[r].id, inflight[r].wrote)

\* C12 as amended: a request whose UPDATE statement succeeded is answered
\* with 200 and the row as stored when it reads it (the values it wrote when
\* no other request's Update on the same id ran in between, else the values
\* of the last such Update), or with 500 when the read fails or a Delete on
\* the same id ran in between.
C12_AnsweredWithRowAtRead ==
  \A r \in Requests :
    UpdatedAndAnswered(r) =>
      LET q == inflight[r]
      IN  /\ q.between = "none" => q.latest = q.wrote
          /\ IF q.fault \/ q.between = "delete"
               THEN q.status = 500 /\ q.body = NoBody
               ELSE q.status = 200 /\ q.body = Encode(q.id, q.latest)

\* Another request's Update ran between the UPDATE and the read of a request,
\* which was answered 200 with values it did not write.
C12_Witness ==
  \E r \in Requests :
    /\ UpdatedAndAnswered(r)
    /\ ~inflight[r].fault
    /\ inflight[r].between = "update"
    /\ inflight[r].status = 200
    /\ inflight[r].body.row # inflight[r].wrote

====
